---- MODULE Spec2Model ----
\* Booking lifecycle engine of uslugiBG-backend: the booking routes
\* (routes/booking.ts), their middleware chain (bookingSecurityChecks.ts,
\* bookingValidation.ts) and the booking controller, over a Prisma store.
\*
\* Time is counted in hours.  An optional value (a nullable column, an
\* absent body field, an unset environment variable) is the empty set when
\* absent and a one-element set when present, so that JavaScript's
\* undefined === undefined is set equality {} = {}.
EXTENDS Integers, Sequences, FiniteSets, TLC

--------------------------------------------------------------------------
\* Bounds of the model

\* status-history rows kept per booking (the creation row included)
MaxHistory == 3
\* the clock stops advancing once it has reached MaxNow
MaxNow == 24
\* hours added by one clock step
TickStep == 24
\* requests that may be in flight at once under SpecConc
MaxConcurrent == 2
\* under SpecSweep the clock stops advancing at MaxSweepNow hours
MaxSweepNow == 144
\* under SpecReview the clock stops advancing at MaxReviewNow hours
MaxReviewNow == 672

--------------------------------------------------------------------------
\* Enumerations of prisma/schema.prisma

BookingStatus ==
  {"pending", "confirmed", "in_progress", "completed", "cancelled",
   "no_show_customer", "no_show_provider", "disputed"}

DisputeStatus ==
  {"OPEN", "RESOLVED_FOR_CUSTOMER", "RESOLVED_FOR_PROVIDER", "CLOSED_NO_RESOLUTION"}

BookingType == {"DIRECT", "INQUIRY"}

\* The User table: ids 1..4; user 3 is an administrator, user 4 a customer
\* who is no party to the booking.
UserType == <<"customer", "provider", "admin", "customer">>

UserIds == DOMAIN UserType

\* review window of 14 days, in hours
ReviewWindow == 14 * 24

--------------------------------------------------------------------------
VARIABLES
  bookings,       \* Booking table: id -> row
  statusHistory,  \* BookingStatusHistory rows per booking, oldest first
  now,            \* the clock (new Date()), in hours
  env,            \* process.env: ADMIN_USER_ID, ADMIN_SECRET_KEY
  req,            \* per slot: the request being served, or the last one served
  sweep,          \* the auto-completion job: its position, the rows it found and
                  \* has not updated yet, the row whose update threw
  reviews,        \* Review table: a set of rows
  providerProfile \* ProviderProfile row of the provider, user 2

vars == <<bookings, statusHistory, now, env, req, sweep, reviews, providerProfile>>

Slots == 1..MaxConcurrent

\* a slot that has served nothing yet
\* the provider's profile as registration stores it: not rated yet
NewProviderProfile == [rating |-> {}]

\* the job between two runs
IdleSweep == [pc |-> "idle", found |-> <<>>, failed |-> {}]

IdleReq ==
  [kind |-> "none", user |-> 0, bid |-> 0, status |-> "undefined",
   completedByCustomer |-> {}, completedByProvider |-> {},
   hasDispute |-> {}, disputeReason |-> {}, resolution |-> {}, adminKey |-> {},
   rating |-> {}, providerReviews |-> {},
   pc |-> "idle", code |-> 0, snap |-> {}, flags |-> {},
   providerPenaltyAmount |-> {}, customerPenaltyAmount |-> {}]

InFlight(s) == req[s].pc \notin {"idle", "done"}

--------------------------------------------------------------------------
\* createBooking: the row and the first history row a successful creation
\* stores.  The customer is user 1, the service's provider is user 2.

NewBooking(bookingType, bookingDate, totalPrice) ==
  [customerId |-> 1, providerUserId |-> 2,
   bookingDate |-> bookingDate,
   status |-> IF bookingType = "DIRECT" THEN "confirmed" ELSE "pending",
   totalPrice |-> totalPrice,
   createdAt |-> 0, updatedAt |-> 0,
   completedByCustomer |-> FALSE, completedByProvider |-> FALSE,
   autoCompletedAt |-> {},
   hasDispute |-> FALSE, disputeReason |-> {}, disputeStatus |-> {},
   disputeResolvedAt |-> {},
   reviewEligible |-> FALSE, reviewEligibleUntil |-> {},
   cancelledBy |-> {}, cancellationReason |-> {}, cancellationTime |-> {}]

NewHistoryRow(bookingType) ==
  [previousStatus |-> "pending",
   newStatus |-> IF bookingType = "DIRECT" THEN "confirmed" ELSE "pending",
   changedBy |-> 1, changedAt |-> 0, reason |-> {"Booking created"}]

\* booking dates asked for at creation, both in the future at time 0: one
\* less than 24 hours ahead and in the past after a clock step, one more
\* than 24 hours ahead and less than 24 hours ahead after a clock step
BookingDates == {12, 30}

\* process.env of a deployment that sets the two admin variables, and of
\* one that sets neither (nothing in the repository sets them)
Deployments ==
  {[ADMIN_USER_ID |-> {3}, ADMIN_SECRET_KEY |-> {"key"}],
   [ADMIN_USER_ID |-> {}, ADMIN_SECRET_KEY |-> {}]}

Init ==
  /\ now = 0
  /\ \E t \in BookingType, d \in BookingDates :
       /\ bookings = [b \in {1} |-> NewBooking(t, d, 100)]
       /\ statusHistory = [b \in {1} |-> <<NewHistoryRow(t)>>]
  /\ env \in Deployments
  /\ req = [s \in Slots |-> IdleReq]
  /\ sweep = IdleSweep
  /\ reviews = {}
  /\ providerProfile = NewProviderProfile

--------------------------------------------------------------------------
\* Requests.  Every request is authenticated (authenticateToken) as one of
\* the users and names an existing booking.

Request(kind, user, bid) ==
  [IdleReq EXCEPT !.kind = kind, !.user = user, !.bid = bid, !.pc = "sent"]

\* PUT /:id/status with body {status}
StatusRequests(bid) ==
  {[Request("status", u, bid) EXCEPT !.status = st] :
     u \in UserIds, st \in BookingStatus \cup {"undefined"}}

\* PUT /:id/complete with body {completedByCustomer?, completedByProvider?}
CompleteRequests(bid) ==
  {[Request("complete", u, bid) EXCEPT !.completedByCustomer = c,
                                       !.completedByProvider = p] :
     u \in UserIds, c \in {{}, {TRUE}}, p \in {{}, {TRUE}}}

\* POST /:id/dispute with body {hasDispute?, disputeReason?}
DisputeRequests(bid) ==
  {[Request("dispute", u, bid) EXCEPT !.hasDispute = h, !.disputeReason = d] :
     u \in UserIds, h \in {{}, {TRUE}, {FALSE}}, d \in {{}, {"reason"}}}

\* PUT /:id/resolve-dispute with body {resolution?} and header x-admin-key?
ResolveRequests(bid) ==
  {[Request("resolve", u, bid) EXCEPT !.resolution = x, !.adminKey = k] :
     u \in UserIds,
     x \in {{}} \cup {{v} : v \in DisputeStatus},
     k \in {{}, {"key"}}}

\* every request a client may send
Requests ==
  UNION {StatusRequests(bid) \cup CompleteRequests(bid)
           \cup DisputeRequests(bid) \cup ResolveRequests(bid) :
         bid \in DOMAIN bookings}

\* the two parties to a booking
Parties(bid) == {bookings[bid].customerId, bookings[bid].providerUserId}

isProvider(r, booking) == booking.providerUserId = r.user
isCustomer(r, booking) == booking.customerId = r.user

--------------------------------------------------------------------------
\* middleware/bookingSecurityChecks.ts.  A middleware only reads; it is the
\* response code it sends, or 0 when it calls next().

validateBookingOwnership(r, booking) ==
  LET isAdmin == UserType[r.user] = "admin"
  IN IF ~isProvider(r, booking) /\ ~isCustomer(r, booking) /\ ~isAdmin
     THEN 403 ELSE 0

\* milliseconds in an hour
HourMs == 60 * 60 * 1000

\* the three most recent history rows span less than five minutes
RapidStatusChanges(h) ==
  /\ Len(h) >= 3
  /\ (h[Len(h)].changedAt - h[Len(h) - 2].changedAt) * HourMs < 5 * 60 * 1000

\* prisma.booking.count of the no-show check: a filter on an undefined value
\* is no filter, so each OR branch of the other role matches every row
RecentNoShows(r, booking) ==
  Cardinality({b \in DOMAIN bookings :
    /\ \/ (isCustomer(r, booking) => bookings[b].customerId = r.user)
       \/ (isProvider(r, booking)
             => bookings[b].providerUserId = booking.providerUserId)
    /\ bookings[b].status = IF isProvider(r, booking) THEN "no_show_customer"
                            ELSE "no_show_provider"
    /\ bookings[b].bookingDate >= now - 30 * 24})

suspiciousActivity(r, booking) ==
  (IF RapidStatusChanges(statusHistory[r.bid])
     THEN {"rapid_status_changes"} ELSE {})
  \cup
  (IF /\ isProvider(r, booking)
      /\ booking.bookingDate < now
      /\ r.status \in {"cancelled", "no_show_customer"}
     THEN {"post_service_provider_cancellation"} ELSE {})
  \cup
  (IF /\ isCustomer(r, booking)
      /\ booking.status = "completed"
      /\ r.status = "disputed"
      /\ r.disputeReason = {}
     THEN {"potential_review_avoidance"} ELSE {})
  \cup
  (IF /\ r.status \in {"no_show_customer", "no_show_provider"}
      /\ RecentNoShows(r, booking) >= 3
     THEN {"repeated_no_show_claims"} ELSE {})

\* detectManipulationAttempts blocking on another signal than the code does
detectManipulationAttemptsBlocksRapid(r, booking) ==
  IF "rapid_status_changes" \in suspiciousActivity(r, booking)
  THEN 403 ELSE 0

detectManipulationAttempts(r, booking) ==
  IF "post_service_provider_cancellation" \in suspiciousActivity(r, booking)
  THEN 403 ELSE 0

\* calculateCancellationPenalties with the two percentages exchanged
calculateCancellationPenaltiesSwapped(r, booking) ==
  LET hoursUntilBooking == booking.bookingDate - now
  IN [providerPenaltyAmount |->
        IF /\ r.status = "cancelled" /\ isProvider(r, booking)
           /\ hoursUntilBooking < 24
        THEN {(booking.totalPrice * 10) \div 100} ELSE {},
      customerPenaltyAmount |->
        IF /\ r.status = "cancelled"
           /\ ~isProvider(r, booking) /\ isCustomer(r, booking)
           /\ hoursUntilBooking < 24
        THEN {(booking.totalPrice * 15) \div 100} ELSE {}]

\* the penalty fields calculateCancellationPenalties adds to the request
calculateCancellationPenalties(r, booking) ==
  LET hoursUntilBooking == booking.bookingDate - now
  IN [providerPenaltyAmount |->
        IF /\ r.status = "cancelled" /\ isProvider(r, booking)
           /\ hoursUntilBooking < 24
        THEN {(booking.totalPrice * 15) \div 100} ELSE {},
      customerPenaltyAmount |->
        IF /\ r.status = "cancelled"
           /\ ~isProvider(r, booking) /\ isCustomer(r, booking)
           /\ hoursUntilBooking < 24
        THEN {(booking.totalPrice * 10) \div 100} ELSE {}]

--------------------------------------------------------------------------
\* middleware/bookingValidation.ts

\* allowedTransitions with one more edge: a pending booking may be started
\* without having been confirmed
allowedTransitionsSkipConfirm ==
  [st \in BookingStatus |->
     CASE st = "pending" -> {"confirmed", "cancelled", "in_progress"}
       [] st = "confirmed" ->
            {"in_progress", "cancelled", "no_show_customer", "no_show_provider"}
       [] st = "in_progress" -> {"completed", "disputed"}
       [] st = "completed" -> {"disputed"}
       [] st = "disputed" -> {"completed"}
       [] OTHER -> {}]

allowedTransitions ==
  [st \in BookingStatus |->
     CASE st = "pending" -> {"confirmed", "cancelled"}
       [] st = "confirmed" ->
            {"in_progress", "cancelled", "no_show_customer", "no_show_provider"}
       [] st = "in_progress" -> {"completed", "disputed"}
       [] st = "completed" -> {"disputed"}
       [] st = "disputed" -> {"completed"}
       [] OTHER -> {}]

\* validateStatusTransition without its "Only provider can confirm booking"
\* restriction
validateStatusTransitionAnyoneConfirms(r, booking) ==
  CASE r.status = "undefined" -> 0
    [] ~isProvider(r, booking) /\ ~isCustomer(r, booking) -> 403
    [] r.status \notin allowedTransitions[booking.status] -> 400
    [] r.status = "no_show_customer" /\ ~isProvider(r, booking) -> 403
    [] r.status = "no_show_provider" /\ ~isCustomer(r, booking) -> 403
    [] r.status = "cancelled" /\ booking.bookingDate < now -> 400
    [] OTHER -> 0

\* validateStatusTransition without its "Prevent cancellations after service
\* date" check
validateStatusTransitionCancelsLate(r, booking) ==
  CASE r.status = "undefined" -> 0
    [] ~isProvider(r, booking) /\ ~isCustomer(r, booking) -> 403
    [] r.status \notin allowedTransitions[booking.status] -> 400
    [] r.status = "confirmed" /\ ~isProvider(r, booking) -> 403
    [] r.status = "no_show_customer" /\ ~isProvider(r, booking) -> 403
    [] r.status = "no_show_provider" /\ ~isCustomer(r, booking) -> 403
    [] OTHER -> 0

validateStatusTransition(r, booking) ==
  CASE r.status = "undefined" -> 0
    [] ~isProvider(r, booking) /\ ~isCustomer(r, booking) -> 403
    [] r.status \notin allowedTransitions[booking.status] -> 400
    [] r.status = "confirmed" /\ ~isProvider(r, booking) -> 403
    [] r.status = "no_show_customer" /\ ~isProvider(r, booking) -> 403
    [] r.status = "no_show_provider" /\ ~isCustomer(r, booking) -> 403
    [] r.status = "cancelled" /\ booking.bookingDate < now -> 400
    [] OTHER -> 0

validateCompletionMarking(r, booking) ==
  CASE r.completedByCustomer = {} /\ r.completedByProvider = {} -> 0
    [] r.completedByCustomer # {} /\ ~isCustomer(r, booking) -> 403
    [] r.completedByProvider # {} /\ ~isProvider(r, booking) -> 403
    [] OTHER -> 0

validateDisputeCreation(r, booking) ==
  CASE r.hasDispute = {} -> 0
    [] r.hasDispute = {FALSE} -> 400
    [] r.disputeReason = {} -> 400
    [] ~isProvider(r, booking) /\ ~isCustomer(r, booking) -> 403
    [] booking.status \notin {"completed", "in_progress"} -> 400
    [] OTHER -> 0

--------------------------------------------------------------------------
\* routes/booking.ts: the middleware chain of each route and the controller
\* that ends it.

\* the code of the first handler of the list that responds, 0 if all call next()
FirstCode(codes) ==
  IF \E i \in DOMAIN codes : codes[i] # 0
  THEN codes[CHOOSE i \in DOMAIN codes :
               codes[i] # 0 /\ \A j \in 1..(i - 1) : codes[j] = 0]
  ELSE 0

\* the response of the route's middleware chain, 0 if the controller is reached
Middleware(r, booking) ==
  CASE r.kind = "status" ->
         FirstCode(<<validateBookingOwnership(r, booking),
                     detectManipulationAttempts(r, booking),
                     validateStatusTransition(r, booking)>>)
    [] r.kind = "complete" ->
         FirstCode(<<validateBookingOwnership(r, booking),
                     detectManipulationAttempts(r, booking),
                     validateCompletionMarking(r, booking)>>)
    [] r.kind = "dispute" ->
         FirstCode(<<validateBookingOwnership(r, booking),
                     detectManipulationAttempts(r, booking),
                     validateDisputeCreation(r, booking)>>)
    [] OTHER -> validateBookingOwnership(r, booking)

\* The request after its route's middleware: answered by one of them, or
\* handed to the controller.  detectManipulationAttempts, when reached,
\* logs the flags; calculateCancellationPenalties, when reached, attaches
\* the penalties.  The middleware decide on columns no request changes and
\* on one read of the booking's status.
Routed(r) ==
  LET booking == bookings[r.bid]
      code == Middleware(r, booking)
      owned == validateBookingOwnership(r, booking) = 0
      detected == owned /\ r.kind # "resolve"
      penalties == calculateCancellationPenalties(r, booking)
      penalised == /\ detected /\ r.kind = "status"
                   /\ detectManipulationAttempts(r, booking) = 0
  IN [r EXCEPT
        !.pc = IF code # 0 THEN "done" ELSE "controller",
        !.code = code,
        !.flags = IF detected THEN suspiciousActivity(r, booking) ELSE {},
        !.providerPenaltyAmount =
           IF penalised THEN penalties.providerPenaltyAmount ELSE {},
        !.customerPenaltyAmount =
           IF penalised THEN penalties.customerPenaltyAmount ELSE {}]

--------------------------------------------------------------------------
\* controllers/booking/bookingController.ts.  Each controller awaits
\* prisma.booking.findUnique and then prisma.booking.update.  A controller
\* is what it does with the row it read (booking) when the stored row is
\* cur at its update: the code it answers and, if it updates, the row and
\* the history rows it writes.

HistoryRow(prev, new, by, reason) ==
  [previousStatus |-> prev, newStatus |-> new, changedBy |-> by,
   changedAt |-> now, reason |-> reason]

\* res.status(code).json(...) without an update
Answer(code) == [code |-> code, rows |-> <<>>, row |-> {}]

\* prisma.booking.update with a nested statusHistory.create, answered 200
Updated(row, rows) ==
  [code |-> 200, rows |-> rows, row |-> {[row EXCEPT !.updatedAt = now]}]

\* the row updateBookingStatus writes
StatusUpdate(r, cur) ==
  IF r.status = "cancelled"
  THEN [cur EXCEPT !.status = r.status, !.cancelledBy = {r.user},
                   !.cancellationTime = {now}, !.cancellationReason = {}]
  ELSE [cur EXCEPT !.status = r.status]

\* Without a status in the body the nested history row lacks its required
\* newStatus, the update is refused by Prisma and the error handler answers.
updateBookingStatus(r, booking, cur) ==
  IF r.status = "undefined"
  THEN Answer(500)
  ELSE Updated(StatusUpdate(r, cur),
               <<HistoryRow(booking.status, r.status, r.user, {})>>)

\* bothComplete that does not look at the other party's flag
bothCompleteAlone(r, booking) ==
  isCustomer(r, booking) \/ isProvider(r, booking)

\* bothComplete as the controller computes it from the row it read
bothComplete(r, booking) ==
  \/ isCustomer(r, booking) /\ booking.completedByProvider
  \/ isProvider(r, booking) /\ booking.completedByCustomer

\* the row markBookingCompletion writes
CompletionUpdate(r, booking, cur) ==
  LET own == IF isCustomer(r, booking)
             THEN [cur EXCEPT !.completedByCustomer = TRUE]
             ELSE [cur EXCEPT !.completedByProvider = TRUE]
  IN IF bothComplete(r, booking)
     THEN [own EXCEPT !.status = "completed", !.reviewEligible = TRUE,
                      !.reviewEligibleUntil = {now + ReviewWindow}]
     ELSE own

markBookingCompletion(r, booking, cur) ==
  IF ~isProvider(r, booking) /\ ~isCustomer(r, booking)
  THEN Answer(403)
  ELSE Updated(CompletionUpdate(r, booking, cur),
               IF bothComplete(r, booking)
               THEN <<HistoryRow(booking.status, "completed", r.user,
                                 {"Both parties marked as complete"})>>
               ELSE <<>>)

\* the row handleDispute writes
DisputeUpdate(r, cur) ==
  [cur EXCEPT !.hasDispute = TRUE, !.disputeReason = r.disputeReason,
              !.disputeStatus = {"OPEN"}, !.status = "disputed"]

\* `Dispute created: ${disputeReason}`, the reason being "reason" if given
DisputeCreated(disputeReason) ==
  IF disputeReason = {} THEN "Dispute created: undefined"
  ELSE "Dispute created: reason"

handleDispute(r, booking, cur) ==
  Updated(DisputeUpdate(r, cur),
          <<HistoryRow(booking.status, "disputed", r.user,
                       {DisputeCreated(r.disputeReason)})>>)

\* isAdmin of resolveDispute: the user id against Number(ADMIN_USER_ID),
\* or the x-admin-key header against ADMIN_SECRET_KEY
isAdmin(r) ==
  \/ r.user \in env.ADMIN_USER_ID
  \/ r.adminKey = env.ADMIN_SECRET_KEY

\* ResolveCode that does not look at the booking's hasDispute
ResolveCodeAnyBooking(r, booking) ==
  CASE ~isAdmin(r) -> 403
    [] r.resolution = {} -> 400
    [] OTHER -> 0

\* the response code of resolveDispute before its update, 0 when it goes on
ResolveCode(r, booking) ==
  CASE ~isAdmin(r) -> 403
    [] r.resolution = {} -> 400
    [] ~booking.hasDispute -> 400
    [] OTHER -> 0

\* ResolvedStatus that completes the booking on every closing resolution
ResolvedStatusAlwaysCompletes(resolution) ==
  CASE resolution \in {"RESOLVED_FOR_CUSTOMER", "RESOLVED_FOR_PROVIDER",
                       "CLOSED_NO_RESOLUTION"}
         -> "completed"
    [] OTHER -> "disputed"

\* the booking status a resolution leads to
ResolvedStatus(resolution) ==
  CASE resolution \in {"RESOLVED_FOR_CUSTOMER", "RESOLVED_FOR_PROVIDER"}
         -> "completed"
    [] resolution = "CLOSED_NO_RESOLUTION" -> "cancelled"
    [] OTHER -> "disputed"

\* a resolution that also clears hasDispute when it closes the dispute
ResolveUpdateClearsDispute(r, cur) ==
  LET resolution == CHOOSE x \in r.resolution : TRUE
  IN [cur EXCEPT !.disputeStatus = r.resolution,
                 !.disputeResolvedAt = {now},
                 !.status = ResolvedStatus(resolution),
                 !.hasDispute = (resolution = "OPEN")]

\* the row resolveDispute writes
ResolveUpdate(r, cur) ==
  LET resolution == CHOOSE x \in r.resolution : TRUE
      reviewEligible ==
        resolution \in {"RESOLVED_FOR_CUSTOMER", "RESOLVED_FOR_PROVIDER"}
  IN [cur EXCEPT !.disputeStatus = r.resolution,
                 !.disputeResolvedAt = {now},
                 !.status = ResolvedStatus(resolution),
                 !.reviewEligible = reviewEligible,
                 !.reviewEligibleUntil =
                    IF reviewEligible THEN {now + ReviewWindow} ELSE @]

\* no request carries resolutionNotes
resolveDispute(r, booking, cur) ==
  IF ResolveCode(r, booking) # 0
  THEN Answer(ResolveCode(r, booking))
  ELSE Updated(ResolveUpdate(r, cur),
               <<HistoryRow(booking.status,
                            ResolvedStatus(CHOOSE x \in r.resolution : TRUE),
                            r.user, {"Dispute resolved: undefined"})>>)

\* the controller that ends the route of request r
Controller(r, booking, cur) ==
  CASE r.kind = "status" -> updateBookingStatus(r, booking, cur)
    [] r.kind = "complete" -> markBookingCompletion(r, booking, cur)
    [] r.kind = "dispute" -> handleDispute(r, booking, cur)
    [] OTHER -> resolveDispute(r, booking, cur)

--------------------------------------------------------------------------
\* Steps

\* the controller's outcome reaches the store and the client
Finish(s, r, out) ==
  /\ req' = [req EXCEPT ![s] = [r EXCEPT !.pc = "done", !.code = out.code]]
  /\ bookings' = IF out.row = {} THEN bookings
                 ELSE [bookings EXCEPT ![r.bid] = CHOOSE b \in out.row : TRUE]
  /\ statusHistory' = [statusHistory EXCEPT ![r.bid] = @ \o out.rows]

\* A request, one of R, is served from its arrival to its response with no
\* other request in between: the middleware chain, then the controller, whose
\* update finds the row its findUnique read.  Requests are taken while the
\* booking has fewer than rows history rows.
HandleWithin(s, R, rows) ==
  /\ req[s].pc = "idle"
  /\ \E r \in R :
       /\ Len(statusHistory[r.bid]) < rows
       /\ LET q == Routed(r)
              booking == bookings[r.bid]
          IN IF q.pc = "done"
             THEN /\ req' = [req EXCEPT ![s] = q]
                  /\ UNCHANGED <<bookings, statusHistory>>
             ELSE Finish(s, q, Controller(q, booking, booking))
  /\ UNCHANGED <<now, env, sweep, reviews, providerProfile>>

Handle(s, R) == HandleWithin(s, R, MaxHistory)

\* A request, one of R, arrives on a free connection while others are being
\* served, and the route's middleware chain runs.
Submit(s, R) ==
  /\ req[s].pc = "idle"
  /\ \E r \in R :
       /\ Len(statusHistory[r.bid])
            + Cardinality({t \in Slots : InFlight(t) /\ req[t].bid = r.bid})
              < MaxHistory
       /\ req' = [req EXCEPT ![s] = Routed(r)]
  /\ UNCHANGED <<bookings, statusHistory, now, env, sweep, reviews, providerProfile>>

\* prisma.booking.findUnique of the controller: it keeps the row it read
findUnique(s) ==
  /\ req[s].pc = "controller"
  /\ req' = [req EXCEPT ![s].pc = "update",
                        ![s].snap = {bookings[req[s].bid]}]
  /\ UNCHANGED <<bookings, statusHistory, now, env, sweep, reviews, providerProfile>>

\* the rest of the controller, on the row it read and the row now stored
update(s) ==
  /\ req[s].pc = "update"
  /\ Finish(s, req[s],
            Controller(req[s], CHOOSE b \in req[s].snap : TRUE,
                       bookings[req[s].bid]))
  /\ UNCHANGED <<now, env, sweep, reviews, providerProfile>>

\* The client has read the response; the connection is free again.
Retire(s) ==
  /\ req[s].pc = "done"
  /\ req' = [req EXCEPT ![s] = IdleReq]
  /\ UNCHANGED <<bookings, statusHistory, now, env, sweep, reviews, providerProfile>>

\* Time passes while every connection is in one of the states pcs.
Tick(pcs) ==
  /\ \A s \in Slots : req[s].pc \in pcs
  /\ now < MaxNow
  /\ now' = now + TickStep
  /\ UNCHANGED <<bookings, statusHistory, env, req, sweep, reviews, providerProfile>>

--------------------------------------------------------------------------
\* jobs/autoCompleteBookings.ts, started by the daily cron of scheduleJobs.ts

\* subHours(new Date(), 72)
timeThreshold == now - 72

\* the where clause with updatedAt: { lte: timeThreshold }
oneSideCompleteFrom72(booking) ==
  /\ booking.status = "in_progress"
  /\ booking.updatedAt <= timeThreshold
  /\ \/ booking.completedByCustomer /\ ~booking.completedByProvider
     \/ ~booking.completedByCustomer /\ booking.completedByProvider

\* a where clause without its second OR branch
oneSideCompleteCustomer(booking) ==
  /\ booking.status = "in_progress"
  /\ booking.updatedAt < timeThreshold
  /\ booking.completedByCustomer /\ ~booking.completedByProvider

\* the where clause of the job's findMany
oneSideComplete(booking) ==
  /\ booking.status = "in_progress"
  /\ booking.updatedAt < timeThreshold
  /\ \/ booking.completedByCustomer /\ ~booking.completedByProvider
     \/ ~booking.completedByCustomer /\ booking.completedByProvider

\* the ids of the rows findMany returns
bookingsToUpdate == {b \in DOMAIN bookings : oneSideComplete(bookings[b])}

\* findMany has no orderBy: the rows come in any order
Orders(S) ==
  {f \in [1..Cardinality(S) -> S] : \A i, j \in DOMAIN f : f[i] = f[j] => i = j}

\* an update that stamps autoCompletedAt and nothing else
AutoCompleteStampOnly(cur) == [cur EXCEPT !.autoCompletedAt = {now}]

\* the data of the job's update
AutoComplete(cur) ==
  [cur EXCEPT !.status = "completed",
              !.completedByCustomer = TRUE, !.completedByProvider = TRUE,
              !.autoCompletedAt = {now},
              !.reviewEligible = TRUE,
              !.reviewEligibleUntil = {now + ReviewWindow},
              !.updatedAt = now]

\* A run of the job starts: findMany.  The job runs while no request is
\* being served.
findMany ==
  /\ sweep.pc \in {"idle", "done"}
  /\ \A s \in Slots : req[s].pc = "idle"
  /\ \E found \in Orders(bookingsToUpdate) :
       sweep' = [pc |-> "updating", found |-> found, failed |-> {}]
  /\ UNCHANGED <<bookings, statusHistory, now, env, req, reviews, providerProfile>>

\* one turn of the job's loop: prisma.booking.update of the next row found,
\* with its nested statusHistory.create, while the history has fewer than
\* rows rows
autoCompleteWithin(rows) ==
  /\ sweep.pc = "updating"
  /\ sweep.found # <<>>
  /\ Len(statusHistory[Head(sweep.found)]) < rows
  /\ LET b == Head(sweep.found)
     IN /\ bookings' = [bookings EXCEPT ![b] = AutoComplete(@)]
        /\ statusHistory' =
             [statusHistory EXCEPT ![b] =
                Append(@, HistoryRow("in_progress", "completed", 0,
                                     {"Auto-completed after 72 hours"}))]
  /\ sweep' = [sweep EXCEPT !.found = Tail(@)]
  /\ UNCHANGED <<now, env, req, reviews, providerProfile>>

autoComplete == autoCompleteWithin(MaxHistory)

\* prisma.booking.update of the next row found throws (the store refuses or
\* cannot be reached): the catch around the whole function logs the error
\* and the job returns
autoCompleteThrows ==
  /\ sweep.pc = "updating"
  /\ sweep.found # <<>>
  /\ sweep' = [sweep EXCEPT !.pc = "done", !.failed = {Head(sweep.found)}]
  /\ UNCHANGED <<bookings, statusHistory, now, env, req, reviews, providerProfile>>

\* the loop is over and the job returns
autoCompleteBookings ==
  /\ sweep.pc = "updating"
  /\ sweep.found = <<>>
  /\ sweep' = [sweep EXCEPT !.pc = "done"]
  /\ UNCHANGED <<bookings, statusHistory, now, env, req, reviews, providerProfile>>

\* the job is left until its next start
Rest ==
  /\ sweep.pc = "done"
  /\ sweep' = IdleSweep
  /\ UNCHANGED <<bookings, statusHistory, now, env, req, reviews, providerProfile>>

\* Three days pass, the age the job asks of a booking, while no request is
\* served and no job runs.
Days ==
  /\ \A s \in Slots : req[s].pc = "idle"
  /\ sweep.pc = "idle"
  /\ now + 72 <= MaxSweepNow
  /\ now' = now + 72
  /\ UNCHANGED <<bookings, statusHistory, env, req, sweep, reviews, providerProfile>>

--------------------------------------------------------------------------
\* routes/review.ts, middleware/reviewValidation.ts and
\* controllers/review/reviewController.ts

\* POST /reviews with body {bookingId, rating}
ReviewRequests(users, ratings) ==
  {[Request("review", u, bid) EXCEPT !.rating = {x}] :
     u \in users, bid \in DOMAIN bookings, x \in ratings}

validateReviewInput(r) ==
  IF r.rating = {} \/ \E x \in r.rating : x < 1 \/ x > 5 THEN 400 ELSE 0

\* booking.review of the findUnique that includes the review
reviewOf(bid) == {rv \in reviews : rv.bookingId = bid}

validateReviewEligibility(r, booking) ==
  CASE booking.customerId # r.user -> 403
    [] booking.status # "completed" -> 400
    [] ~booking.reviewEligible -> 400
    [] \E t \in booking.reviewEligibleUntil : t < now -> 400
    [] reviewOf(r.bid) # {} -> 400
    [] OTHER -> 0

\* reviews of the sender's bookings created in the last 10 minutes, the
\* clock counting hours
recentReviews(r) ==
  Cardinality({rv \in reviews :
                 /\ bookings[rv.bookingId].customerId = r.user
                 /\ rv.createdAt * 60 >= now * 60 - 10})

\* its drastic-rating check only flags the request for moderation
detectReviewManipulation(r) == IF recentReviews(r) >= 5 THEN 429 ELSE 0

\* the response of the route's middleware chain, 0 if createReview is reached
ReviewMiddleware(r) ==
  FirstCode(<<validateReviewInput(r),
              validateReviewEligibility(r, bookings[r.bid]),
              detectReviewManipulation(r)>>)

\* a Review table without the unique index
UniqueViolationNever(bid, rows) == FALSE

\* bookingId is @unique: prisma.review.create throws when the booking has a
\* review
UniqueViolation(bid, rows) == \E rv \in rows : rv.bookingId = bid

\* the row prisma.review.create stores
NewReview(r, rows) ==
  [id |-> Cardinality(rows) + 1, bookingId |-> r.bid,
   rating |-> CHOOSE x \in r.rating : TRUE, createdAt |-> now]

\* the reviews of the bookings of the provider of booking bid
providerReviewsOf(bid, rows) ==
  {rv \in rows :
     bookings[rv.bookingId].providerUserId = bookings[bid].providerUserId}

RECURSIVE totalRating(_)
totalRating(rows) ==
  IF rows = {} THEN 0
  ELSE LET rv == CHOOSE x \in rows : TRUE
       IN rv.rating + totalRating(rows \ {rv})

\* totalRating / providerReviews.length, counted in sixtieths: the quotient
\* is exact for up to six reviews
avgRating(rows) == (totalRating(rows) * 60) \div Cardinality(rows)

\* A review request, one of R, is served from its arrival to its response
\* with no other request in between.
HandleReview(s, R) ==
  /\ req[s].pc = "idle"
  /\ \E r \in R :
       LET code == ReviewMiddleware(r)
           created == reviews \cup {NewReview(r, reviews)}
       IN IF code # 0
          THEN /\ req' = [req EXCEPT ![s] = [r EXCEPT !.pc = "done",
                                                      !.code = code]]
               /\ UNCHANGED <<reviews, providerProfile>>
          ELSE IF UniqueViolation(r.bid, reviews)
          THEN /\ req' = [req EXCEPT ![s] = [r EXCEPT !.pc = "done",
                                                      !.code = 500]]
               /\ UNCHANGED <<reviews, providerProfile>>
          ELSE /\ reviews' = created
               /\ providerProfile' =
                    [providerProfile EXCEPT
                       !.rating = {avgRating(providerReviewsOf(r.bid, created))}]
               /\ req' = [req EXCEPT ![s] =
                            [r EXCEPT !.pc = "done", !.code = 201,
                                      !.providerReviews =
                                         providerReviewsOf(r.bid, created)]]
  /\ UNCHANGED <<bookings, statusHistory, now, env, sweep>>

\* A review request, one of R, arrives on a free connection while others are
\* being served, and the route's middleware chain runs.
SubmitReview(s, R) ==
  /\ req[s].pc = "idle"
  /\ \E r \in R :
       LET code == ReviewMiddleware(r)
       IN req' = [req EXCEPT ![s] =
                    IF code # 0 THEN [r EXCEPT !.pc = "done", !.code = code]
                    ELSE [r EXCEPT !.pc = "create"]]
  /\ UNCHANGED <<bookings, statusHistory, now, env, sweep, reviews,
                 providerProfile>>

\* prisma.review.create of createReview; its exception goes to the error
\* handler
create(s) ==
  /\ req[s].pc = "create"
  /\ IF UniqueViolation(req[s].bid, reviews)
     THEN /\ req' = [req EXCEPT ![s].pc = "done", ![s].code = 500]
          /\ UNCHANGED reviews
     ELSE /\ reviews' = reviews \cup {NewReview(req[s], reviews)}
          /\ req' = [req EXCEPT ![s].pc = "findMany"]
  /\ UNCHANGED <<bookings, statusHistory, now, env, sweep, providerProfile>>

\* prisma.review.findMany of createReview: the provider's reviews
findManyReviews(s) ==
  /\ req[s].pc = "findMany"
  /\ req' = [req EXCEPT ![s].pc = "rate",
                        ![s].providerReviews =
                           providerReviewsOf(req[s].bid, reviews)]
  /\ UNCHANGED <<bookings, statusHistory, now, env, sweep, reviews,
                 providerProfile>>

\* prisma.providerProfile.update of createReview, and its 201
updateRating(s) ==
  /\ req[s].pc = "rate"
  /\ providerProfile' =
       [providerProfile EXCEPT !.rating = {avgRating(req[s].providerReviews)}]
  /\ req' = [req EXCEPT ![s].pc = "done", ![s].code = 201]
  /\ UNCHANGED <<bookings, statusHistory, now, env, sweep, reviews>>

\* A review window passes while no request is being served.
Fortnight ==
  /\ \A s \in Slots : req[s].pc = "idle"
  /\ now + ReviewWindow <= MaxReviewNow
  /\ now' = now + ReviewWindow
  /\ UNCHANGED <<bookings, statusHistory, env, req, sweep, reviews,
                 providerProfile>>

--------------------------------------------------------------------------
\* Specifications

\* requests arrive one after the other, and time passes between them
Next ==
  \/ Handle(1, Requests)
  \/ Retire(1)
  \/ Tick({"idle"})

Spec == Init /\ [][Next]_vars

\* every PUT /:id/status request
AllStatusRequests == UNION {StatusRequests(bid) : bid \in DOMAIN bookings}

\* only status changes are requested, one after the other; the history may
\* grow by one more row than under Spec, so that a request meets a booking
\* whose three latest history rows exist
NextStatus ==
  \/ HandleWithin(1, AllStatusRequests, MaxHistory + 1)
  \/ Retire(1)
  \/ Tick({"idle"})

SpecStatus == Init /\ [][NextStatus]_vars

\* the requests the two parties send under SpecConc
PartyRequests ==
  {r \in Requests :
     /\ r.kind \in {"status", "complete", "dispute"}
     /\ r.user \in Parties(r.bid)
     /\ (r.kind = "status" => r.status # "undefined")
     /\ (r.kind = "complete"
           => r.completedByCustomer = {} /\ r.completedByProvider = {})
     /\ (r.kind = "dispute" => r.hasDispute = {TRUE} /\ r.disputeReason # {})}

\* requests of the two parties overlap; each connection serves one request
NextConc ==
  \/ \E s \in Slots : Submit(s, PartyRequests)
  \/ \E s \in Slots : findUnique(s)
  \/ \E s \in Slots : update(s)
  \/ Tick({"idle", "done"})

SpecConc == Init /\ [][NextConc]_vars

\* the bookings of SpecSweep
SweepBookings == {1, 2}

\* Two direct bookings of the same customer with the same provider.
InitSweep ==
  /\ now = 0
  /\ bookings = [b \in SweepBookings |-> NewBooking("DIRECT", 30, 100)]
  /\ statusHistory = [b \in SweepBookings |-> <<NewHistoryRow("DIRECT")>>]
  /\ env = [ADMIN_USER_ID |-> {3}, ADMIN_SECRET_KEY |-> {"key"}]
  /\ req = [s \in Slots |-> IdleReq]
  /\ sweep = IdleSweep
  /\ reviews = {}
  /\ providerProfile = NewProviderProfile

\* the requests sent under SpecSweep: the provider starts the service, the
\* customer cancels it or opens a dispute, either party marks it complete
SweepRequests ==
  UNION {{[Request("status", bookings[bid].providerUserId, bid)
             EXCEPT !.status = "in_progress"],
          [Request("status", bookings[bid].customerId, bid)
             EXCEPT !.status = "cancelled"],
          [Request("dispute", bookings[bid].customerId, bid)
             EXCEPT !.hasDispute = {TRUE}, !.disputeReason = {"reason"}]}
         \cup {Request("complete", u, bid) : u \in Parties(bid)} :
         bid \in DOMAIN bookings}

\* requests are served one after the other, days pass, and the job runs
\* between requests, once or several times in succession
NextSweep ==
  \/ sweep.pc = "idle" /\ Handle(1, SweepRequests)
  \/ Retire(1)
  \/ Days
  \/ findMany
  \/ autoComplete
  \/ autoCompleteBookings
  \/ Rest

SpecSweep == InitSweep /\ [][NextSweep]_vars

\* SpecSweep under the cron's schedule: the job is started again and again
\* whatever the requests, a run that has started goes on to its end, and a
\* response sent is read
FairSweep ==
  /\ SpecSweep
  /\ SF_vars(findMany)
  /\ WF_vars(autoComplete)
  /\ WF_vars(autoCompleteBookings)
  /\ WF_vars(Retire(1))

\* as NextSweep, but requests are also served between the job's findMany and
\* its updates, an update may throw, and the job's row may be one more than
\* the rows requests may write
NextSweepConc ==
  \/ Handle(1, SweepRequests)
  \/ Retire(1)
  \/ Days
  \/ findMany
  \/ autoCompleteWithin(MaxHistory + 1)
  \/ autoCompleteThrows
  \/ autoCompleteBookings
  \/ Rest

SpecSweepConc == InitSweep /\ [][NextSweepConc]_vars

\* a booking and its history after the controller of request r has served it
After(r, st) ==
  LET out == Controller(r, st.row, st.row)
  IN [row |-> CHOOSE b \in out.row : TRUE, hist |-> st.hist \o out.rows]

\* a direct booking as createBooking stores it
Created == [row |-> NewBooking("DIRECT", 30, 100),
            hist |-> <<NewHistoryRow("DIRECT")>>]

\* the customer, then the provider, marked it complete
BothMarked ==
  After(Request("complete", 2, 1), After(Request("complete", 1, 1), Created))

\* the provider started the service
Started ==
  After([Request("status", 2, 1) EXCEPT !.status = "in_progress"], Created)

\* the customer then set it completed through the status route
StatusCompleted ==
  After([Request("status", 1, 1) EXCEPT !.status = "completed"], Started)

\* completed by both marks, then disputed by the customer
DisputedAfter ==
  After([Request("dispute", 1, 1) EXCEPT !.hasDispute = {TRUE},
                                       !.disputeReason = {"reason"}],
        BothMarked)

\* the bookings of SpecReview
ReviewBookings == 1..6

\* Six direct bookings of the same customer with the same provider, at the
\* hour at which they were created and served: five completed by both
\* marks, the sixth in one of four states.
InitReview ==
  /\ now = 0
  /\ \E st \in {BothMarked, Started, StatusCompleted, DisputedAfter} :
       /\ bookings = [b \in ReviewBookings |->
                        IF b = 6 THEN st.row ELSE BothMarked.row]
       /\ statusHistory = [b \in ReviewBookings |->
                             IF b = 6 THEN st.hist ELSE BothMarked.hist]
  /\ env = [ADMIN_USER_ID |-> {3}, ADMIN_SECRET_KEY |-> {"key"}]
  /\ req = [s \in Slots |-> IdleReq]
  /\ sweep = IdleSweep
  /\ reviews = {}
  /\ providerProfile = NewProviderProfile

\* review requests with rating 5 of every user are served one after the
\* other, and review windows pass between them
NextReview ==
  \/ HandleReview(1, ReviewRequests(UserIds, {5}))
  \/ Retire(1)
  \/ Fortnight

SpecReview == InitReview /\ [][NextReview]_vars

\* the bookings of SpecReviewConc
RatedBookings == {1, 2}

\* Two bookings of the same customer with the same provider, both completed
\* by both marks.
InitReviewConc ==
  /\ now = 0
  /\ bookings = [b \in RatedBookings |-> BothMarked.row]
  /\ statusHistory = [b \in RatedBookings |-> BothMarked.hist]
  /\ env = [ADMIN_USER_ID |-> {3}, ADMIN_SECRET_KEY |-> {"key"}]
  /\ req = [s \in Slots |-> IdleReq]
  /\ sweep = IdleSweep
  /\ reviews = {}
  /\ providerProfile = NewProviderProfile

\* the customer's review requests, with rating 1 or 5, are in flight
\* together; each query of each is a step
NextReviewConc ==
  \/ \E s \in Slots : SubmitReview(s, ReviewRequests({1}, {1, 5}))
  \/ \E s \in Slots : create(s)
  \/ \E s \in Slots : findManyReviews(s)
  \/ \E s \in Slots : updateRating(s)

SpecReviewConc == InitReviewConc /\ [][NextReviewConc]_vars

-----
\* Properties

\* the edge table of the booking state machine as the specification gives it
EdgeTable ==
  [st \in BookingStatus |->
     IF st = "pending" THEN {"confirmed", "cancelled"}
     ELSE IF st = "confirmed"
       THEN {"in_progress", "cancelled", "no_show_customer", "no_show_provider"}
     ELSE IF st = "in_progress" THEN {"completed", "disputed"}
     ELSE IF st = "completed" THEN {"disputed"}
     ELSE IF st = "disputed" THEN {"completed"}
     ELSE {}]

Terminal == {"cancelled", "no_show_customer", "no_show_provider"}

\* the request in slot s has been answered
Done(s) == req[s].pc = "done"

\* this step is one of the request in slot s: its arrival with the route's
\* middleware, or a step of its controller; req'[s] is that request
Serving(s) == req'[s] # req[s] /\ req'[s].pc # "idle"

\* C1: a status-change request of the customer or the provider whose pair
\* (current status, requested status) is not an edge of the table is never
\* accepted, and no step of it changes the booking's status or its history.
C1_OnlyEdgesAccepted ==
  [][\A s \in Slots :
       (/\ Serving(s)
        /\ req'[s].kind = "status"
        /\ req'[s].user \in Parties(req'[s].bid)
        /\ req'[s].status \notin EdgeTable[bookings[req'[s].bid].status])
       => /\ bookings'[req'[s].bid].status = bookings[req'[s].bid].status
          /\ statusHistory'[req'[s].bid] = statusHistory[req'[s].bid]
          /\ req'[s].code # 200]_vars

\* C1 witness: a party's status change has been accepted along an edge and
\* stored with its history row.
C1_Witness ==
  \E s \in Slots :
    LET r == req[s]
        h == statusHistory[r.bid]
    IN /\ Done(s) /\ r.kind = "status" /\ r.code = 200
       /\ r.user \in Parties(r.bid)
       /\ bookings[r.bid].status = r.status
       /\ h[Len(h)].newStatus = r.status
       /\ r.status \in EdgeTable[h[Len(h)].previousStatus]

\* C2: once a booking is cancelled, no_show_customer or no_show_provider, no
\* status-change, completion or dispute request of a party changes its
\* status, and no status-change request on it is accepted.
C2_TerminalIsFinal ==
  [][\A s \in Slots :
       (/\ Serving(s)
        /\ req'[s].kind \in {"status", "complete", "dispute"}
        /\ req'[s].user \in Parties(req'[s].bid)
        /\ bookings[req'[s].bid].status \in Terminal)
       => /\ bookings'[req'[s].bid].status = bookings[req'[s].bid].status
          /\ (req'[s].kind = "status" => req'[s].code # 200)]_vars

\* C3: every change of a booking's status made by a status-change,
\* completion or dispute request follows an edge of the table.
C3_ChangesFollowEdges ==
  [][\A s \in Slots :
       (/\ Serving(s)
        /\ req'[s].kind \in {"status", "complete", "dispute"}
        /\ bookings'[req'[s].bid].status # bookings[req'[s].bid].status)
       => bookings'[req'[s].bid].status
            \in EdgeTable[bookings[req'[s].bid].status]]_vars

\* C4: two accepted status changes of one booking took effect one after the
\* other: the later one was an edge out of the status the earlier one set.
C4_Serialized ==
  \A s, t \in Slots :
    (/\ s # t
     /\ Done(s) /\ req[s].kind = "status" /\ req[s].code = 200
     /\ Done(t) /\ req[t].kind = "status" /\ req[t].code = 200
     /\ req[s].bid = req[t].bid)
    => \/ req[t].status \in EdgeTable[req[s].status]
       \/ req[s].status \in EdgeTable[req[t].status]

\* C5: when the customer and the provider have each marked completion, the
\* booking has both flags, is completed, and has exactly one 'Both parties
\* marked as complete' history row.
C5_CompletedExactlyOnce ==
  \A s, t \in Slots :
    (/\ Done(s) /\ req[s].kind = "complete" /\ req[s].code = 200
     /\ Done(t) /\ req[t].kind = "complete" /\ req[t].code = 200
     /\ req[s].bid = req[t].bid
     /\ req[s].user = bookings[req[s].bid].customerId
     /\ req[t].user = bookings[req[t].bid].providerUserId)
    => LET b == bookings[req[s].bid]
           h == statusHistory[req[s].bid]
       IN /\ b.completedByCustomer /\ b.completedByProvider
          /\ b.status = "completed"
          /\ Cardinality({i \in DOMAIN h :
               h[i].reason = {"Both parties marked as complete"}}) = 1

\* C6: a booking that is review-eligible is completed.
C6_EligibleIsCompleted ==
  \A b \in DOMAIN bookings :
    bookings[b].reviewEligible => bookings[b].status = "completed"

\* C7: no status-change or completion request of a party moves a disputed
\* booking to another status.
C7_DisputedStays ==
  [][\A s \in Slots :
       (/\ Serving(s)
        /\ req'[s].kind \in {"status", "complete"}
        /\ req'[s].user \in Parties(req'[s].bid)
        /\ bookings[req'[s].bid].status = "disputed")
       => bookings'[req'[s].bid].status = "disputed"]_vars

\* C8: a party's create-dispute request on a booking that is not completed
\* or in_progress, or without a disputeReason, is rejected and changes
\* nothing; an accepted one leaves hasDispute true, disputeStatus OPEN and
\* status disputed.
C8_DisputeCreation ==
  [][\A s \in Slots :
       (/\ Serving(s)
        /\ req'[s].kind = "dispute"
        /\ req'[s].user \in Parties(req'[s].bid))
       => IF /\ bookings[req'[s].bid].status \in {"completed", "in_progress"}
             /\ req'[s].disputeReason # {}
          THEN req'[s].code = 200
                 => /\ bookings'[req'[s].bid].hasDispute
                    /\ bookings'[req'[s].bid].disputeStatus = {"OPEN"}
                    /\ bookings'[req'[s].bid].status = "disputed"
          ELSE /\ bookings' = bookings
               /\ statusHistory' = statusHistory
               /\ req'[s].code # 200]_vars

\* C9: a resolve-dispute request whose sender is not the configured admin
\* identity and presents no header equal to the configured admin secret is
\* rejected and changes neither the booking nor its history.
C9_ResolveAdminOnly ==
  [][\A s \in Slots :
       (/\ Serving(s)
        /\ req'[s].kind = "resolve"
        /\ req'[s].user \notin env.ADMIN_USER_ID
        /\ ~(req'[s].adminKey # {} /\ req'[s].adminKey = env.ADMIN_SECRET_KEY))
       => /\ bookings' = bookings
          /\ statusHistory' = statusHistory
          /\ req'[s].code # 200]_vars

\* C10: a status-change request of an actor who is neither party nor
\* administrator is answered 403 and changes nothing; an administrator's
\* request is judged by the edge table: it is answered 400 when the pair is
\* no edge and is not refused as unauthorized when it asks for a status no
\* role restriction covers.
C10_Authorization ==
  [][\A s \in Slots :
       (/\ Serving(s)
        /\ req'[s].kind = "status"
        /\ req'[s].status # "undefined"
        /\ req'[s].pc = "done")
       => IF req'[s].user \in Parties(req'[s].bid)
          THEN TRUE
          ELSE IF UserType[req'[s].user] = "admin"
          THEN /\ req'[s].status \notin EdgeTable[bookings[req'[s].bid].status]
                    => req'[s].code = 400
               /\ req'[s].status \in {"in_progress", "completed", "disputed"}
                    => req'[s].code # 403
          ELSE /\ req'[s].code = 403
               /\ bookings' = bookings
               /\ statusHistory' = statusHistory]_vars

\* C11: a status-change request for confirmed or no_show_customer by anyone
\* but the booking's provider, or for no_show_provider by anyone but its
\* customer, is not accepted and changes neither the booking nor its history.
C11_RoleRestrictions ==
  [][\A s \in Slots :
       (/\ Serving(s)
        /\ req'[s].kind = "status"
        /\ \/ /\ req'[s].status \in {"confirmed", "no_show_customer"}
              /\ req'[s].user # bookings[req'[s].bid].providerUserId
           \/ /\ req'[s].status = "no_show_provider"
              /\ req'[s].user # bookings[req'[s].bid].customerId)
       => /\ req'[s].code # 200
          /\ bookings' = bookings
          /\ statusHistory' = statusHistory]_vars

\* C11 witness: the customer asked to confirm a pending booking, an allowed
\* edge, and was refused as unauthorized; the booking is still pending.
C11_Witness ==
  \E s \in Slots :
    /\ Done(s) /\ req[s].kind = "status" /\ req[s].status = "confirmed"
    /\ req[s].user = bookings[req[s].bid].customerId
    /\ bookings[req[s].bid].status = "pending"
    /\ req[s].code = 403

\* C12: a status-change request for cancelled on a booking whose bookingDate
\* is earlier than now is rejected with a client error (400 for the customer
\* on any status, 400 or 403 for every other actor), and the booking's
\* status, cancelledBy, cancellationTime and history are unchanged.
C12_NoCancelAfterDate ==
  [][\A s \in Slots :
       (/\ Serving(s)
        /\ req'[s].kind = "status"
        /\ req'[s].status = "cancelled"
        /\ bookings[req'[s].bid].bookingDate < now)
       => /\ req'[s].code \in {400, 403}
          /\ (req'[s].user = bookings[req'[s].bid].customerId
                => req'[s].code = 400)
          /\ bookings'[req'[s].bid].status = bookings[req'[s].bid].status
          /\ bookings'[req'[s].bid].cancelledBy
               = bookings[req'[s].bid].cancelledBy
          /\ bookings'[req'[s].bid].cancellationTime
               = bookings[req'[s].bid].cancellationTime
          /\ statusHistory' = statusHistory]_vars

\* C12 witness: the customer asked to cancel a confirmed booking, an allowed
\* edge, after its date and was answered 400; the booking is not cancelled.
C12_Witness ==
  \E s \in Slots :
    /\ Done(s) /\ req[s].kind = "status" /\ req[s].status = "cancelled"
    /\ req[s].user = bookings[req[s].bid].customerId
    /\ bookings[req[s].bid].bookingDate < now
    /\ bookings[req[s].bid].status = "confirmed"
    /\ bookings[req[s].bid].cancelledBy = {}
    /\ req[s].code = 400

C14_CancellationPenalty ==
  [][\A s \in Slots :
       (/\ Serving(s)
        /\ req'[s].kind = "status"
        /\ req'[s].status = "cancelled"
        /\ req'[s].user \in Parties(req'[s].bid)
        /\ ~(/\ req'[s].user = bookings[req'[s].bid].providerUserId
             /\ bookings[req'[s].bid].bookingDate < now))
       => LET r == req'[s]
              booking == bookings[r.bid]
              late == booking.bookingDate - now < 24
              byProvider == r.user = booking.providerUserId
          IN /\ r.providerPenaltyAmount =
                  IF late /\ byProvider
                  THEN {p \in 0..booking.totalPrice :
                          100 * p = 15 * booking.totalPrice}
                  ELSE {}
             /\ r.customerPenaltyAmount =
                  IF late /\ ~byProvider
                  THEN {p \in 0..booking.totalPrice :
                          100 * p = 10 * booking.totalPrice}
                  ELSE {}
             /\ (late /\ byProvider) => r.providerPenaltyAmount # {}
             /\ (late /\ ~byProvider) => r.customerPenaltyAmount # {}]_vars

\* C14 witness: price 100, a confirmed booking less than 24 hours ahead, the
\* customer cancels: status cancelled, customerPenaltyAmount 10, one history
\* row confirmed -> cancelled.
C14_Witness ==
  \E s \in Slots :
    LET r == req[s]
        h == statusHistory[r.bid]
    IN /\ Done(s) /\ r.kind = "status" /\ r.status = "cancelled"
       /\ r.code = 200
       /\ r.user = bookings[r.bid].customerId
       /\ bookings[r.bid].totalPrice = 100
       /\ bookings[r.bid].bookingDate - now \in 0..23
       /\ bookings[r.bid].status = "cancelled"
       /\ r.customerPenaltyAmount = {10} /\ r.providerPenaltyAmount = {}
       /\ h[Len(h)].previousStatus = "confirmed"
       /\ h[Len(h)].newStatus = "cancelled"
       /\ Len(h) = 2

\* C15: an accepted mark-completion request sets the sender's completion
\* flag and leaves the other party's flag as it was.  If both flags are true
\* after it, the same step sets status completed, reviewEligible true,
\* reviewEligibleUntil to now + 14 days and appends exactly one history row,
\* 'Both parties marked as complete'; otherwise status, reviewEligible,
\* reviewEligibleUntil and the history are unchanged.
C15_CompletionMarking ==
  [][\A s \in Slots :
       (/\ Serving(s)
        /\ req'[s].kind = "complete"
        /\ req'[s].code = 200)
       => LET r == req'[s]
              old == bookings[r.bid]
              new == bookings'[r.bid]
              h == statusHistory[r.bid]
              h2 == statusHistory'[r.bid]
          IN /\ r.user \in Parties(r.bid)
             /\ IF r.user = old.customerId
                THEN /\ new.completedByCustomer
                     /\ new.completedByProvider = old.completedByProvider
                ELSE /\ new.completedByProvider
                     /\ new.completedByCustomer = old.completedByCustomer
             /\ IF new.completedByCustomer /\ new.completedByProvider
                THEN /\ new.status = "completed"
                     /\ new.reviewEligible
                     /\ new.reviewEligibleUntil = {now + 14 * 24}
                     /\ Len(h2) = Len(h) + 1
                     /\ SubSeq(h2, 1, Len(h)) = h
                     /\ h2[Len(h2)].newStatus = "completed"
                     /\ h2[Len(h2)].reason
                          = {"Both parties marked as complete"}
                ELSE /\ new.status = old.status
                     /\ new.reviewEligible = old.reviewEligible
                     /\ new.reviewEligibleUntil = old.reviewEligibleUntil
                     /\ h2 = h]_vars

\* C15 witness: the second party's mark completed a booking that was not
\* completed before, with its history row and its review window.
C15_Witness ==
  \E s \in Slots :
    LET r == req[s]
        b == bookings[r.bid]
        h == statusHistory[r.bid]
    IN /\ Done(s) /\ r.kind = "complete" /\ r.code = 200
       /\ b.completedByCustomer /\ b.completedByProvider
       /\ b.status = "completed" /\ b.reviewEligible
       /\ b.reviewEligibleUntil = {now + 14 * 24}
       /\ h[Len(h)].reason = {"Both parties marked as complete"}
       /\ h[Len(h)].previousStatus # "completed"
       /\ h[Len(h)].changedBy = r.user

\* C16: a resolve-dispute request with a resolution on a booking that has a
\* dispute, sent by the configured admin identity, is accepted; every
\* accepted one sets status completed, reviewEligible true and
\* reviewEligibleUntil = now + 14 days for RESOLVED_FOR_CUSTOMER and
\* RESOLVED_FOR_PROVIDER, status cancelled and reviewEligible false for
\* CLOSED_NO_RESOLUTION, status disputed for any other value, and appends
\* exactly one history row.
C16_ResolutionOutcome ==
  [][\A s \in Slots :
       (/\ Serving(s)
        /\ req'[s].kind = "resolve"
        /\ req'[s].resolution # {}
        /\ bookings[req'[s].bid].hasDispute
        /\ (req'[s].user \in env.ADMIN_USER_ID \/ req'[s].code = 200))
       => LET r == req'[s]
              new == bookings'[r.bid]
              h == statusHistory[r.bid]
              h2 == statusHistory'[r.bid]
          IN /\ r.code = 200
             /\ \A x \in r.resolution :
                  IF x \in {"RESOLVED_FOR_CUSTOMER", "RESOLVED_FOR_PROVIDER"}
                  THEN /\ new.status = "completed"
                       /\ new.reviewEligible
                       /\ new.reviewEligibleUntil = {now + 14 * 24}
                  ELSE IF x = "CLOSED_NO_RESOLUTION"
                  THEN new.status = "cancelled" /\ ~new.reviewEligible
                  ELSE new.status = "disputed"
             /\ Len(h2) = Len(h) + 1
             /\ SubSeq(h2, 1, Len(h)) = h
             /\ h2[Len(h2)].newStatus = new.status]_vars

\* C16 witness: the configured administrator closed a dispute without
\* resolution; the booking is cancelled and not review-eligible, with the
\* resolution's history row.
C16_Witness ==
  \E s \in Slots :
    LET r == req[s]
        b == bookings[r.bid]
        h == statusHistory[r.bid]
    IN /\ Done(s) /\ r.kind = "resolve" /\ r.code = 200
       /\ r.user \in env.ADMIN_USER_ID
       /\ r.resolution = {"CLOSED_NO_RESOLUTION"}
       /\ b.hasDispute /\ b.disputeStatus = {"CLOSED_NO_RESOLUTION"}
       /\ b.status = "cancelled" /\ ~b.reviewEligible
       /\ h[Len(h)].previousStatus = "disputed"
       /\ h[Len(h)].newStatus = "cancelled"
       /\ h[Len(h)].changedBy = r.user

\* C17: once a booking's hasDispute is true no step sets it back to false,
\* be it a status change, a completion mark, a dispute creation, a
\* resolution or an update of the auto-completion job; and a dispute request
\* whose body carries hasDispute: false is never accepted and changes neither
\* the booking nor its history.
C17_HasDisputeMonotonic ==
  [][/\ \A b \in DOMAIN bookings :
          bookings[b].hasDispute => bookings'[b].hasDispute
     /\ \A s \in Slots :
          (/\ Serving(s)
           /\ req'[s].kind = "dispute"
           /\ req'[s].hasDispute = {FALSE})
          => /\ req'[s].code # 200
             /\ bookings'[req'[s].bid] = bookings[req'[s].bid]
             /\ statusHistory'[req'[s].bid] = statusHistory[req'[s].bid]]_vars

\* C17 witness: a party's dispute request with hasDispute: false was answered
\* 400 on a disputed booking, whose hasDispute is still true.
C17_Witness ==
  \E s \in Slots :
    LET r == req[s]
        b == bookings[r.bid]
    IN /\ Done(s) /\ r.kind = "dispute" /\ r.code = 400
       /\ r.hasDispute = {FALSE}
       /\ r.user \in Parties(r.bid)
       /\ b.hasDispute
       /\ b.status = "disputed"
       /\ b.disputeStatus = {"OPEN"}

\* C18: a resolve-dispute request on a booking whose hasDispute is false is
\* never accepted, whatever its resolution, its sender and the booking's
\* status, and no step of it changes the booking or its history.
C18_ResolveNeedsDispute ==
  [][\A s \in Slots :
       (/\ Serving(s)
        /\ req'[s].kind = "resolve"
        /\ ~bookings[req'[s].bid].hasDispute)
       => /\ req'[s].code # 200
          /\ bookings'[req'[s].bid] = bookings[req'[s].bid]
          /\ statusHistory'[req'[s].bid] = statusHistory[req'[s].bid]]_vars

\* C18 witness: the configured administrator asked to resolve, with a valid
\* resolution, a booking without a dispute, and was answered 400.
C18_Witness ==
  \E s \in Slots :
    LET r == req[s]
        b == bookings[r.bid]
    IN /\ Done(s) /\ r.kind = "resolve" /\ r.code = 400
       /\ r.user \in env.ADMIN_USER_ID
       /\ r.resolution = {"RESOLVED_FOR_CUSTOMER"}
       /\ ~b.hasDispute /\ b.disputeStatus = {}
       /\ b.disputeResolvedAt = {} /\ ~b.reviewEligible

C20_SweepIdempotent ==
  [][/\ (sweep.pc = "done" /\ sweep'.pc = "updating")
        => /\ sweep'.found = <<>>
           /\ bookings' = bookings
           /\ statusHistory' = statusHistory
     /\ (sweep.pc = "updating" /\ sweep.found = <<>>)
        => /\ bookings' = bookings
           /\ statusHistory' = statusHistory]_vars

\* C20 witness: a run has found nothing at the very hour at which a run
\* completed a booking.
C20_Witness ==
  /\ sweep.pc = "updating"
  /\ sweep.found = <<>>
  /\ \E b \in DOMAIN bookings :
       LET h == statusHistory[b]
       IN /\ bookings[b].autoCompletedAt = {now}
          /\ bookings[b].updatedAt = now
          /\ bookings[b].status = "completed"
          /\ h[Len(h)].changedBy = 0
          /\ h[Len(h)].changedAt = now

\* C30: a mark-completion request of either party on a booking whose two
\* completion flags are true and whose status is completed leaves the
\* booking's status, reviewEligible, reviewEligibleUntil and its status
\* history as they were.
C30_MarkCompletionIdempotent ==
  [][\A s \in Slots :
       (/\ Serving(s)
        /\ req'[s].kind = "complete"
        /\ req'[s].user \in Parties(req'[s].bid)
        /\ bookings[req'[s].bid].completedByCustomer
        /\ bookings[req'[s].bid].completedByProvider
        /\ bookings[req'[s].bid].status = "completed")
       => LET old == bookings[req'[s].bid]
              new == bookings'[req'[s].bid]
          IN /\ new.status = old.status
             /\ new.reviewEligible = old.reviewEligible
             /\ new.reviewEligibleUntil = old.reviewEligibleUntil
             /\ statusHistory'[req'[s].bid] = statusHistory[req'[s].bid]]_vars

\* C28: a status-change or mark-completion request of the customer or the
\* provider turns a booking's status into completed only if both
\* completedByCustomer and completedByProvider are true after it.
C28_NoCompletionAlone ==
  [][\A s \in Slots :
       (/\ Serving(s)
        /\ req'[s].kind \in {"status", "complete"}
        /\ req'[s].user \in Parties(req'[s].bid)
        /\ bookings[req'[s].bid].status # "completed"
        /\ bookings'[req'[s].bid].status = "completed")
       => /\ bookings'[req'[s].bid].completedByCustomer
          /\ bookings'[req'[s].bid].completedByProvider]_vars

\* C27: every booking whose status is disputed has hasDispute true and
\* disputeStatus OPEN, which is what a resolution by an administrator needs.
C27_DisputedHasOpenDispute ==
  \A b \in DOMAIN bookings :
    bookings[b].status = "disputed"
      => bookings[b].hasDispute /\ bookings[b].disputeStatus = {"OPEN"}

\* C26: every step that changes a booking's status appends, in that same
\* step, exactly one history row whose previousStatus is the status the
\* booking had just before the step and whose newStatus is the status it has
\* after it; and no step changes or removes a history row that exists.
C26_HistoryFollowsStatus ==
  [][\A b \in DOMAIN bookings :
       LET h == statusHistory[b]
           h2 == statusHistory'[b]
       IN /\ Len(h2) >= Len(h)
          /\ SubSeq(h2, 1, Len(h)) = h
          /\ bookings'[b].status # bookings[b].status
               => /\ Len(h2) = Len(h) + 1
                  /\ h2[Len(h2)].previousStatus = bookings[b].status
                  /\ h2[Len(h2)].newStatus = bookings'[b].status]_vars

\* C29: the job's update completes a booking only if the booking's status is
\* in_progress at that write, and the history row it appends carries the
\* status the booking had just before the write: a dispute a party created
\* after the job's findMany is not overwritten.
C29_SweepWritesOnlyInProgress ==
  [][(/\ sweep.pc = "updating"
      /\ sweep.found # <<>>
      /\ sweep'.found = Tail(sweep.found)
      /\ sweep'.pc = "updating")
     => LET b == Head(sweep.found)
            h2 == statusHistory'[b]
        IN bookings'[b] # bookings[b]
             => /\ bookings[b].status = "in_progress"
                /\ h2[Len(h2)].previousStatus = bookings[b].status]_vars

\* C21: when a run of the job has ended in which the update of one booking
\* found threw, every other booking found in that run has been
\* auto-completed by it.
C21_SweepFailureIsolated ==
  (sweep.pc = "done" /\ sweep.failed # {})
    => \A i \in DOMAIN sweep.found :
         sweep.found[i] \notin sweep.failed
           => /\ bookings[sweep.found[i]].status = "completed"
              /\ bookings[sweep.found[i]].autoCompletedAt = {now}

\* C22: under the job's schedule, a booking that is in_progress with exactly
\* one completion flag set and was last updated more than 72 hours ago is
\* eventually completed by the job, unless a request updates it first.
C22_StalledEventuallyCompleted ==
  \A b \in SweepBookings :
    (/\ bookings[b].status = "in_progress"
     /\ bookings[b].completedByCustomer # bookings[b].completedByProvider
     /\ now - bookings[b].updatedAt > 72)
    ~> (\/ /\ bookings[b].status = "completed"
           /\ bookings[b].autoCompletedAt # {}
        \/ /\ bookings[b].autoCompletedAt = {}
           /\ now - bookings[b].updatedAt <= 72)

\* C22 witness: a booking in progress and last updated at hour 0 was
\* completed by the job at hour 144.
C22_Witness ==
  \E b \in DOMAIN bookings :
    LET h == statusHistory[b]
    IN /\ now = 144
       /\ bookings[b].status = "completed"
       /\ bookings[b].autoCompletedAt = {144}
       /\ Len(h) = 3
       /\ h[2].newStatus = "in_progress" /\ h[2].changedAt = 0
       /\ h[3].changedBy = 0 /\ h[3].changedAt = 144
       /\ h[3].previousStatus = "in_progress"

\* C23: a review-creation request with a rating from 1 to 5 is accepted if
\* and only if its sender is the booking's customer, the booking's status is
\* completed, reviewEligible is true, reviewEligibleUntil is null or not in
\* the past, and the booking has no review yet.
C23_ReviewAcceptedIff ==
  [][\A s \in Slots :
       (/\ Serving(s)
        /\ req'[s].kind = "review"
        /\ req'[s].pc = "done"
        /\ \E x \in req'[s].rating : x \in 1..5)
       => LET r == req'[s]
              booking == bookings[r.bid]
          IN r.code = 201
             <=> /\ r.user = booking.customerId
                 /\ booking.status = "completed"
                 /\ booking.reviewEligible
                 /\ \A t \in booking.reviewEligibleUntil : t >= now
                 /\ ~\E rv \in reviews : rv.bookingId = r.bid]_vars

\* C24: every booking has at most one review, and at most one
\* review-creation request for it is accepted, also when two such requests
\* are served together.
C24_OneReviewPerBooking ==
  \A b \in DOMAIN bookings :
    /\ Cardinality({rv \in reviews : rv.bookingId = b}) <= 1
    /\ Cardinality({s \in Slots : /\ req[s].kind = "review"
                                   /\ req[s].bid = b
                                   /\ req[s].code = 201}) <= 1

\* C24 witness: two requests for the same booking both passed the
\* eligibility check; one was accepted, the other failed at its create, and
\* the booking has one review.
C24_Witness ==
  \E s, t \in Slots :
    /\ s # t
    /\ req[s].kind = "review" /\ req[t].kind = "review"
    /\ req[s].bid = req[t].bid
    /\ req[s].pc = "done" /\ req[s].code = 201
    /\ req[t].pc = "done" /\ req[t].code = 500
    /\ Cardinality({rv \in reviews : rv.bookingId = req[s].bid}) = 1

\* C25: whenever no review creation is in progress and the provider has a
\* review, the provider's stored rating is the arithmetic mean of the
\* ratings of all reviews of the provider's bookings (the rating counts
\* sixtieths).
C25_RatingIsMean ==
  ((\A s \in Slots : req[s].pc \in {"idle", "done"}) /\ reviews # {})
    => \E x \in providerProfile.rating :
         x * Cardinality(reviews) = 60 * totalRating(reviews)

====
